---- MODULE Spec2Model ----
(***************************************************************************)
(* Model of the segpath mask-to-prompt pipeline:                           *)
(*   scripts/5_create_text_prompt.py  (the dataset emitter, process_mask), *)
(*   scripts/prompt_augmenter.py      (augment_prompt),                    *)
(*   scripts/select_val_samples.py    (select_samples).                    *)
(* Python strings are sequences of one-character strings, so formatting,  *)
(* cleaning, splitting and joining are computed as the code computes them. *)
(* A percentage is the exact rational count*100/total.                     *)
(***************************************************************************)
EXTENDS Integers, Sequences, FiniteSets, TLC

VARIABLES
    prog,               \* which script this run executes: "emit" | "augment" | "select"
    pc,                 \* position of the script: "loop" | "call" | "done"
    filter_background,  \* main(filter_background=...)
    use_augmentation,   \* main(use_augmentation=...)
    settings,           \* config["settings"]
    label_to_name,      \* labels loaded from the description table (code -> label)
    class_codes,        \* class table in file order: sequence of <<name, code>>
    technical_details,  \* prompt_augmenter.technical_details
    mask_files,         \* list(source_dir.glob(...)): file names in listing order
    idx,                \* number of mask files the loop has consumed
    out,                \* lines written to the JSON-lines output, in order
    processed_files,    \* main: processed_files
    augmented_prompts,  \* main: augmented_prompts
    last,               \* the latest loop iteration: the file, its content, the prompt
    outcomes,           \* history: how each consumed file left the loop body
    aug,                \* one call of augment_prompt: arguments and result
    sel,                \* one call of select_samples: inputs and results
    cnt,                \* one run of 2_count_pixel_classes.main: inputs, accumulators, rows
    tbl,                \* one call of a class-table loader: the table and the result
    col,                \* one run of 4_color_masks.color_masks: tasks, queue, writes
    worker              \* the worker threads of the coloring pool: position and task

vars == <<prog, pc, filter_background, use_augmentation, settings, label_to_name,
          class_codes, technical_details, mask_files, idx, out, processed_files,
          augmented_prompts, last, outcomes, aug, sel, cnt, tbl, col, worker>>

-----------------------------------------------------------------------------
(* Bounds of the model *)

MaxFiles == 2       \* mask files in the source directory
MaxPixels == 1      \* pixels of an exhaustively enumerated mask
MaxCorpus == 1      \* corpus sentences the emitter run draws from
MaxTokens == 56     \* tokens of a prompt handed to augment_prompt directly
MaxRows == 2        \* data lines of a class table file
MaxWorkers == 2     \* worker threads of the coloring pool

-----------------------------------------------------------------------------
(* Python str / list primitives *)

Chars(s) == [i \in 1..Len(s) |-> SubSeq(s, i, i)]

None == <<"<None>">>

IsSpace(c) == c \in {" ", "\n", "\t"}

\* str.split(): split on runs of whitespace, no empty tokens. The string is
\* halved, the halves are split, and a token that straddles the cut is rejoined.
RECURSIVE str_split(_)
str_split(s) ==
    IF Len(s) <= 1 THEN (IF s = <<>> \/ IsSpace(s[1]) THEN <<>> ELSE <<s>>)
    ELSE LET m == Len(s) \div 2
             l == str_split(SubSeq(s, 1, m))
             r == str_split(SubSeq(s, m + 1, Len(s)))
         IN  IF ~IsSpace(s[m]) /\ ~IsSpace(s[m + 1])
             THEN SubSeq(l, 1, Len(l) - 1) \o <<l[Len(l)] \o Head(r)>> \o Tail(r)
             ELSE l \o r

\* str.split(c): split on every occurrence of the character c, empty parts kept
RECURSIVE str_split_on(_, _)
str_split_on(s, c) ==
    LET hits == {i \in DOMAIN s : s[i] = c}
    IN  IF hits = {} THEN <<s>>
        ELSE LET n == CHOOSE i \in hits : \A j \in hits : i <= j
             IN  <<SubSeq(s, 1, n - 1)>> \o str_split_on(SubSeq(s, n + 1, Len(s)), c)

\* sep.join(parts)
RECURSIVE str_join(_, _)
str_join(sep, parts) ==
    IF parts = <<>> THEN <<>>
    ELSE IF Len(parts) = 1 THEN parts[1]
    ELSE LET h == Len(parts) \div 2
         IN  str_join(sep, SubSeq(parts, 1, h)) \o sep \o
             str_join(sep, SubSeq(parts, h + 1, Len(parts)))

\* s.replace(c, d) for single characters
str_replace(s, c, d) == [i \in DOMAIN s |-> IF s[i] = c THEN d ELSE s[i]]

UpperChars == Chars("ABCDEFGHIJKLMNOPQRSTUVWXYZ")
LowerChars == Chars("abcdefghijklmnopqrstuvwxyz")
LowerOf == [c \in {UpperChars[k] : k \in DOMAIN UpperChars} |->
               LowerChars[CHOOSE k \in DOMAIN UpperChars : UpperChars[k] = c]]

\* s.lower()
str_lower(s) == [i \in DOMAIN s |-> IF s[i] \in DOMAIN LowerOf THEN LowerOf[s[i]] ELSE s[i]]

\* s.endswith(t)
str_endswith(s, t) ==
    Len(s) >= Len(t) /\ SubSeq(s, Len(s) - Len(t) + 1, Len(s)) = t

DigitChars == Chars("0123456789")

\* str(n) for n >= 0
RECURSIVE str_int(_)
str_int(n) ==
    IF n < 10 THEN <<DigitChars[n + 1]>>
    ELSE str_int(n \div 10) \o <<DigitChars[(n % 10) + 1]>>

\* s.strip()
RECURSIVE str_strip(_)
str_strip(s) ==
    IF s = <<>> THEN s
    ELSE IF IsSpace(s[1]) THEN str_strip(Tail(s))
    ELSE IF IsSpace(s[Len(s)]) THEN str_strip(SubSeq(s, 1, Len(s) - 1))
    ELSE s

\* the value of a run of decimal digits
RECURSIVE DigitsValue(_)
DigitsValue(ds) ==
    IF ds = <<>> THEN 0
    ELSE DigitsValue(SubSeq(ds, 1, Len(ds) - 1)) * 10 +
         ((CHOOSE k \in DOMAIN DigitChars : DigitChars[k] = ds[Len(ds)]) - 1)

\* int(s): surrounding whitespace is dropped, then an optional sign and at least
\* one decimal digit; anything else raises ValueError
Unsigned(s) ==
    LET t == str_strip(s)
    IN  IF t # <<>> /\ t[1] \in {"+", "-"} THEN Tail(t) ELSE t

IsIntLiteral(s) ==
    /\ Unsigned(s) # <<>>
    /\ \A i \in DOMAIN Unsigned(s) : \E k \in DOMAIN DigitChars : DigitChars[k] = Unsigned(s)[i]

py_int(s) ==
    IF str_strip(s)[1] = "-" THEN 0 - DigitsValue(Unsigned(s)) ELSE DigitsValue(Unsigned(s))

\* what a loader hands back: the registry it returns, or the ValueError it raises
Returned(registry) == [raised |-> "", registry |-> registry]
ValueError == [raised |-> "ValueError", registry |-> <<>>]

\* (count / total) * 100 as an exact rational
Percentage(count, total) == [num |-> count * 100, den |-> total]

\* the percentage in hundredths, rounded to nearest (ties to even) as ".2f" rounds
Hundredths(p) ==
    LET q == (p.num * 100) \div p.den
        r == (p.num * 100) % p.den
    IN  IF 2 * r > p.den THEN q + 1
        ELSE IF 2 * r = p.den THEN q + (q % 2)
        ELSE q

\* f"{percentage:.2f}"
format_2f(p) ==
    LET h == Hundredths(p)
    IN  str_int(h \div 100) \o <<".">> \o
        <<DigitChars[((h \div 10) % 10) + 1], DigitChars[(h % 10) + 1]>>

\* the percentage in ten-thousandths, rounded to nearest (ties to even) as ".4f" rounds
TenThousandths(p) ==
    LET q == (p.num * 10000) \div p.den
        r == (p.num * 10000) % p.den
    IN  IF 2 * r > p.den THEN q + 1
        ELSE IF 2 * r = p.den THEN q + (q % 2)
        ELSE q

\* f"{percentage:.4f}"
format_4f(p) ==
    LET h == TenThousandths(p)
    IN  str_int(h \div 10000) \o <<".">> \o
        [k \in 1..4 |-> DigitChars[((h \div (10 ^ (4 - k))) % 10) + 1]]

Placeholder == Chars("{class_descriptions}")

\* prompt_template.format(class_descriptions=d): every placeholder is replaced
RECURSIVE str_format(_, _)
str_format(t, d) ==
    LET n == Len(Placeholder)
        hits == {i \in 1..(Len(t) - n + 1) : SubSeq(t, i, i + n - 1) = Placeholder}
    IN  IF hits = {} THEN t
        ELSE LET i == CHOOSE i \in hits : \A j \in hits : i <= j
             IN  SubSeq(t, 1, i - 1) \o d \o str_format(SubSeq(t, i + n, Len(t)), d)

KeyError == <<"<KeyError>">>

\* prompt_template.format(class_descriptions=d) raises KeyError when the template
\* has a replacement field of another name: a brace that does not open the field
\* class_descriptions (escaped braces are not modelled)
FormatRaises(t) ==
    \E i \in DOMAIN t :
        /\ t[i] = "{"
        /\ \/ i + Len(Placeholder) - 1 > Len(t)
           \/ SubSeq(t, i, i + Len(Placeholder) - 1) # Placeholder

\* list.sort(key=lambda x: x[1]): stable, ascending by percentage
PctLeq(a, b) == a.num * b.den <= b.num * a.den

RECURSIVE SortInsert(_, _)
SortInsert(sorted, x) ==
    IF sorted = <<>> THEN <<x>>
    ELSE IF PctLeq(Head(sorted)[2], x[2]) THEN <<Head(sorted)>> \o SortInsert(Tail(sorted), x)
    ELSE <<x>> \o sorted

\* the sort left out
sort_by_percentage_Unsorted(l) == l

RECURSIVE sort_by_percentage(_)
sort_by_percentage(l) ==
    IF l = <<>> THEN <<>>
    ELSE SortInsert(sort_by_percentage(SubSeq(l, 1, Len(l) - 1)), l[Len(l)])

-----------------------------------------------------------------------------
(* Shared helpers of the scripts *)

\* extract_class_name(filename)
extract_class_name(filename) ==
    LET parts == str_split_on(filename, "_")
    IN  IF Len(parts) >= 2 THEN parts[1] \o <<"_">> \o parts[2] ELSE None

\* clean_class_name(class_name)
clean_class_name(class_name) ==
    LET cleaned == str_lower(str_replace(str_replace(class_name, "_", " "), ",", " "))
    IN  str_join(<<" ">>, str_split(cleaned))

\* create_prompt(class_percentages, prompt_template)
create_prompt(class_percentages, prompt_template) ==
    LET descr == [i \in DOMAIN class_percentages |->
                    class_percentages[i][1] \o <<" ">> \o
                    format_2f(class_percentages[i][2]) \o <<"%">>]
    IN  str_format(prompt_template, str_join(Chars(", "), descr))


-----------------------------------------------------------------------------
(* prompt_augmenter.py *)

\* technical_details, the module-level corpus
TechnicalDetails ==
    <<
       Chars("SegPath is a large-scale dataset for semantic segmentation of cancer histology images[cite: 1, 18]."),
       Chars("Created using a restaining-based annotation workflow involving H&E and immunofluorescence (IF) staining[cite: 1, 19, 51, 226]."),
       Chars("Dataset designed for training deep learning models for accurate tissue/cell segmentation in pathology[cite: 4, 11, 17, 224]."),
       Chars("Contains annotations for eight major cell/tissue types: epithelium, smooth muscle/myofibroblast, lymphocyte, leukocyte, endothelial cell, plasma cell, myeloid cell, and red blood cell[cite: 1, 18, 86, 111]."),
       Chars("Includes over 158,000 annotated patches from 1,583 patients across 18 different organs[cite: 1, 96, 97]."),
       Chars("Claims to be the largest annotation dataset (>10x larger than previous public datasets) for cancer histology segmentation[cite: 18, 95]."),
       Chars("IF-based annotations aim to be more accurate and less morphologically biased than conventional human annotations by pathologists[cite: 3, 13, 20, 52, 165, 231]."),
       Chars("Annotation workflow uses carefully selected antibodies specific to target cell types[cite: 53, 99, 100]."),
       Chars("Dataset generation involves multi-step image registration to align H&E and IF images accurately[cite: 62, 63, 76, 297, 298]."),
       Chars("Segmentation masks are generated based on IF intensity cut-offs, refined iteratively using deep learning models[cite: 68, 78, 84, 87, 338]."),
       Chars("Enables the development of accurate segmentation models for computer-aided diagnosis and cancer research[cite: 4, 14, 26, 247]."),
       Chars("Models trained on SegPath can potentially identify cells with atypical morphologies missed by pathologists[cite: 21, 153, 175, 187, 251]."),
       Chars("Supports research into the tumor microenvironment through detailed cell distribution analysis[cite: 16, 225]."),
       Chars("The dataset is publicly available via Zenodo, with links provided on a dedicated webpage[cite: 55, 256, 257]."),
       Chars("Associated paper: 'Restaining-based annotation for cancer histology segmentation to overcome annotation-related limitations among pathologists' (Komura et al., 2023, Patterns)[cite: 1, 7].")
    >>

WordBudget == 55

ContextLabel == Chars("\nContext: ")

\* the budget compared with > in place of >=
DrawsContext_Strict(original_prompt, use_aug) ==
    ~(~use_aug \/ Len(str_split(original_prompt)) > WordBudget)

\* whether the call passes the guard of line 28 and reaches random.choice
DrawsContext(original_prompt, use_aug) ==
    ~(~use_aug \/ Len(str_split(original_prompt)) >= WordBudget)

\* the context appended without its label
augment_prompt_NoLabel(original_prompt, use_aug, choice) ==
    IF ~DrawsContext(original_prompt, use_aug)
    THEN original_prompt
    ELSE original_prompt \o Chars("\n") \o technical_details[choice]

\* augment_prompt(original_prompt, use_augmentation); choice is the index that
\* random.choice draws in the current corpus
augment_prompt(original_prompt, use_aug, choice) ==
    IF ~DrawsContext(original_prompt, use_aug)
    THEN original_prompt
    ELSE original_prompt \o ContextLabel \o technical_details[choice]

-----------------------------------------------------------------------------
(* 5_create_text_prompt.py *)

DefaultTemplate == Chars("pathology image: {class_descriptions}")

\* config["settings"].get("prompt_template", "pathology image: {class_descriptions}")
PromptTemplate(cfg) ==
    IF cfg.prompt_template = None THEN DefaultTemplate ELSE cfg.prompt_template

\* dict membership and lookup on a table kept in insertion order
DictHas(d, k) == \E i \in DOMAIN d : d[i][1] = k
DictGet(d, k) == d[CHOOSE i \in DOMAIN d : d[i][1] = k][2]

\* what cv2.imread returns: None, or the grayscale pixel array (flattened)
NoImage == [ok |-> FALSE, pixels |-> <<>>]
Image(px) == [ok |-> TRUE, pixels |-> px]

\* only white pixels counted as foreground
CountPositive_White(px) == Cardinality({i \in DOMAIN px : px[i] = 255})

IsZero(v) == v = 0
IsPositive(v) == v > 0
CountZero(px) == Cardinality({i \in DOMAIN px : IsZero(px[i])})
CountPositive(px) == Cardinality({i \in DOMAIN px : IsPositive(px[i])})

\* counts = np.array([np.sum(mask == 0), np.sum(mask > 0)])
MaskCounts(px) == <<CountZero(px), CountPositive(px)>>

\* the grey level of a white pixel taken for the label
UniqueLabels_GreyLevel(class_idx) == <<0, 255>>

\* unique_labels = np.array([0, class_idx]): background and the class of the file name
UniqueLabels(class_idx) == <<0, class_idx>>

\* a slip of index: the rule looks at the background count
BackgroundOnly_WrongCount(filter_bg, counts) == filter_bg /\ counts[1] = 0

\* process_mask, line 75: the background-only rule
BackgroundOnly(filter_bg, counts) == filter_bg /\ counts[2] = 0

\* background skipped whatever the description table holds
InRegistry_SkipBackground(label, names) == label # 0 /\ label \in DOMAIN names

\* process_mask, line 82: if label in label_to_name
InRegistry(label, names) == label \in DOMAIN names

\* process_mask, lines 79-85: the (clean name, percentage) pairs of background and
\* of the file's class, each only if the description table has the label
LabelEntries(px, class_idx, names) ==
    LET unique_labels == UniqueLabels(class_idx)
        counts == MaskCounts(px)
        total_pixels == Len(px)
        entry(i) == <<clean_class_name(names[unique_labels[i]]),
                      Percentage(counts[i], total_pixels)>>
        RECURSIVE collect(_)
        collect(i) ==
            IF i > Len(unique_labels) THEN <<>>
            ELSE IF InRegistry(unique_labels[i], names)
                 THEN <<entry(i)>> \o collect(i + 1)
                 ELSE collect(i + 1)
    IN  collect(1)

\* process_mask, lines 79-88: class_percentages after the sort
ClassPercentages(px, class_idx, names) ==
    sort_by_percentage(LabelEntries(px, class_idx, names))

\* process_mask, lines 91-96: the rendered prompt, "background" when the list is empty
RenderPrompt(class_percentages, prompt_template) ==
    IF FormatRaises(prompt_template) THEN KeyError
    ELSE IF class_percentages = <<>>
    THEN str_format(prompt_template, Chars("background"))
    ELSE create_prompt(class_percentages, prompt_template)

\* whether process_mask gets as far as cv2.imread for this file name
ReadsMask(name, codes) ==
    LET class_name == extract_class_name(name)
    IN  class_name # None /\ DictHas(codes, class_name)

\* a file that cannot be decoded treated as a mask without any label
process_mask_UnreadableAsEmpty(name, image, names, codes, cfg, filter_bg) ==
    IF ~ReadsMask(name, codes) THEN None
    ELSE IF ~image.ok THEN RenderPrompt(<<>>, PromptTemplate(cfg))
    ELSE LET class_idx == DictGet(codes, extract_class_name(name))
             counts == MaskCounts(image.pixels)
         IN  IF BackgroundOnly(filter_bg, counts) THEN None
             ELSE RenderPrompt(ClassPercentages(image.pixels, class_idx, names),
                               PromptTemplate(cfg))

\* process_mask(mask_path, label_to_name, class_codes, config, filter_background);
\* image is what cv2.imread returns for mask_path
process_mask(name, image, names, codes, cfg, filter_bg) ==
    IF ~ReadsMask(name, codes) THEN None
    ELSE IF ~image.ok THEN None
    ELSE LET class_idx == DictGet(codes, extract_class_name(name))
             counts == MaskCounts(image.pixels)
         IN  IF BackgroundOnly(filter_bg, counts) THEN None
             ELSE RenderPrompt(ClassPercentages(image.pixels, class_idx, names),
                               PromptTemplate(cfg))

\* the comparison with False left out
KeepsPrompt_NotNegated(prompt) ==
    prompt # None /\ prompt # <<>> /\ str_endswith(prompt, Chars(": "))

\* main, line 184: if prompt and prompt.endswith(": ") == False
KeepsPrompt(prompt) ==
    prompt # None /\ prompt # <<>> /\ ~str_endswith(prompt, Chars(": "))

\* Path(config["paths"][..._colored_mask_dir]).name and Path(..._target).name
SourceDirName == Chars("colored_masks")
TargetDirName == Chars("target")

\* the JSON object of one output line
Result(name, prompt) ==
    [source |-> SourceDirName \o <<"/">> \o name,
     target |-> TargetDirName \o <<"/">> \o name,
     prompt |-> prompt]

\* the output file opened anew for every record
WriteLine_Truncating(f, result) == <<result>>

\* main, line 205: f.write of one line to the output file opened at line 179
WriteLine(f, result) == Append(f, result)

-----------------------------------------------------------------------------
(* select_val_samples.py *)

\* lines 115-120: class_groups, the listed files grouped by class prefix, in the
\* order in which each class first appears; files of unlisted classes are dropped
RECURSIVE ClassGroups(_, _)
ClassGroups(files, codes) ==
    IF files = <<>> THEN <<>>
    ELSE LET rest == ClassGroups(SubSeq(files, 1, Len(files) - 1), codes)
             f == files[Len(files)]
             class_name == extract_class_name(f)
         IN  IF ~DictHas(codes, class_name) THEN rest
             ELSE IF DictHas(rest, class_name)
                  THEN [i \in DOMAIN rest |->
                           IF rest[i][1] = class_name
                           THEN <<class_name, Append(rest[i][2], f)>>
                           ELSE rest[i]]
                  ELSE Append(rest, <<class_name, <<f>>>>)

\* lines 133-142: the shape of the first selected mask that can be read
ReferenceShape(selected, content) ==
    LET readable == {i \in DOMAIN selected : content[selected[i][2]].ok}
    IN  IF readable = {} THEN 0
        ELSE Len(content[selected[CHOOSE i \in readable : \A j \in readable : i <= j][2]].pixels)

\* line 165: the mask was read and has the reference shape
Usable(image, reference_shape) == image.ok /\ Len(image.pixels) = reference_shape

\* lines 151, 161-168: combined_mask after the first n selected masks are painted
RECURSIVE CombinedMask(_, _, _, _, _)
CombinedMask(selected, content, codes, reference_shape, n) ==
    IF n = 0 THEN [i \in 1..reference_shape |-> 0]
    ELSE LET before == CombinedMask(selected, content, codes, reference_shape, n - 1)
             image == content[selected[n][2]]
             class_idx == DictGet(codes, selected[n][1])
         IN  IF Usable(image, reference_shape)
             THEN [i \in 1..reference_shape |->
                      IF image.pixels[i] > 0 THEN class_idx ELSE before[i]]
             ELSE before

\* lines 154-156: class_areas = {0: 0} and then a zero for every code of the table
RECURSIVE InitialAreas(_)
InitialAreas(codes) ==
    IF codes = <<>> THEN << <<0, 0>> >>
    ELSE LET rest == InitialAreas(SubSeq(codes, 1, Len(codes) - 1))
             code == codes[Len(codes)][2]
         IN  IF DictHas(rest, code) THEN rest ELSE Append(rest, <<code, 0>>)

DictSet(d, k, v) ==
    IF DictHas(d, k) THEN [i \in DOMAIN d |-> IF d[i][1] = k THEN <<k, v>> ELSE d[i]]
    ELSE Append(d, <<k, v>>)

\* lines 161-171: class_areas after the first n selected masks are painted
RECURSIVE TrackedAreas(_, _, _, _, _)
TrackedAreas(selected, content, codes, reference_shape, n) ==
    IF n = 0 THEN InitialAreas(codes)
    ELSE LET before == TrackedAreas(selected, content, codes, reference_shape, n - 1)
             image == content[selected[n][2]]
             class_idx == DictGet(codes, selected[n][1])
         IN  IF Usable(image, reference_shape)
             THEN DictSet(before, class_idx, CountPositive(image.pixels))
             ELSE before

RECURSIVE SumPositiveKeys(_)
SumPositiveKeys(d) ==
    IF d = <<>> THEN 0
    ELSE (IF Head(d)[1] > 0 THEN Head(d)[2] ELSE 0) + SumPositiveKeys(Tail(d))

\* line 176: class_areas[0] = total_pixels - sum of the areas of the codes > 0
ClassAreas(selected, content, codes, reference_shape) ==
    LET tracked == TrackedAreas(selected, content, codes, reference_shape, Len(selected))
    IN  DictSet(tracked, 0, reference_shape - SumPositiveKeys(tracked))

\* lines 179-190: the (clean name, percentage) list of the prompt, sorted
SelectedPercentages(class_areas, total_pixels, detailed_labels) ==
    LET RECURSIVE collect(_)
        collect(i) ==
            IF i > Len(class_areas) THEN <<>>
            ELSE LET class_idx == class_areas[i][1]
                     percentage == Percentage(class_areas[i][2], total_pixels)
                 IN  IF class_idx > 0 /\ percentage.num > 0 /\ class_idx \in DOMAIN detailed_labels
                     THEN <<<<clean_class_name(detailed_labels[class_idx]), percentage>>>>
                          \o collect(i + 1)
                     ELSE collect(i + 1)
    IN  sort_by_percentage(collect(1))

\* line 232: sorted(class_areas.items(), key=percentage, reverse=True): stable
RECURSIVE SortInsertDesc(_, _, _)
SortInsertDesc(sorted, x, total) ==
    IF sorted = <<>> THEN <<x>>
    ELSE IF PctLeq(Percentage(x[2], total), Percentage(Head(sorted)[2], total))
         THEN <<Head(sorted)>> \o SortInsertDesc(Tail(sorted), x, total)
         ELSE <<x>> \o sorted

RECURSIVE SortedItems(_, _)
SortedItems(class_areas, total) ==
    IF class_areas = <<>> THEN <<>>
    ELSE SortInsertDesc(SortedItems(SubSeq(class_areas, 1, Len(class_areas) - 1), total),
                        class_areas[Len(class_areas)], total)

-----------------------------------------------------------------------------
(* 2_count_pixel_classes.py *)

\* the label id itself as the default of the lookup
DisplayName_CodeAsName(codes, label_id) ==
    IF \E i \in DOMAIN codes : codes[i][2] = label_id
    THEN codes[CHOOSE i \in DOMAIN codes :
                  /\ codes[i][2] = label_id
                  /\ \A j \in DOMAIN codes : j > i => codes[j][2] # label_id][1]
    ELSE str_int(label_id)

\* line 68: label_to_name = {v: k for k, v in class_codes.items()};
\* line 154: label_to_name.get(label_id, 'Unknown'), with the name listed last for
\* a code that several classes share
DisplayName(codes, label_id) ==
    IF \E i \in DOMAIN codes : codes[i][2] = label_id
    THEN codes[CHOOSE i \in DOMAIN codes :
                  /\ codes[i][2] = label_id
                  /\ \A j \in DOMAIN codes : j > i => codes[j][2] # label_id][1]
    ELSE Chars("Unknown")

\* lines 71-73: pixel_counts = {0: 0} and then a zero for every code of the table
InitialCounts(codes) == InitialAreas(codes)

\* line 94: masks_per_class = {name: 0 for name in class_codes.keys()}
InitialMasksPerClass(codes) == [i \in DOMAIN codes |-> <<codes[i][1], 0>>]

\* lines 156-161: the mask count of the first class of the table with this code
MaskCount(codes, masks_per_class, label_id) ==
    IF label_id > 0 /\ \E i \in DOMAIN codes : codes[i][2] = label_id
    THEN DictGet(masks_per_class,
                 codes[CHOOSE i \in DOMAIN codes :
                          /\ codes[i][2] = label_id
                          /\ \A j \in DOMAIN codes : j < i => codes[j][2] # label_id][1])
    ELSE 0

\* line 151: sorted(pixel_counts.items(), key=percentage, reverse=True): stable
SortedCounts(pixel_counts, total_pixels) == SortedItems(pixel_counts, total_pixels)

\* lines 151-162: the rows of the first section of the statistics file
StatisticsRows(pixel_counts, total_pixels, codes, masks_per_class) ==
    LET sorted_items == SortedCounts(pixel_counts, total_pixels)
    IN  [k \in DOMAIN sorted_items |->
            [label_id |-> sorted_items[k][1],
             class_name |-> DisplayName(codes, sorted_items[k][1]),
             count |-> sorted_items[k][2],
             percentage |-> format_4f(Percentage(sorted_items[k][2], total_pixels)),
             mask_count |-> MaskCount(codes, masks_per_class, sorted_items[k][1])]]

-----------------------------------------------------------------------------
(* The class table file: load_class_codes and read_labels_from_tsv *)

\* csv.reader(f, delimiter='\t'): the fields of one line; an empty line is an empty row
CsvFields(line) == IF line = <<>> THEN <<>> ELSE str_split_on(line, "\t")

\* 2_count_pixel_classes lines 35-38: the line is stripped, an empty line has no
\* parts, any other line is split on the tab
StrippedParts(line) ==
    IF str_strip(line) = <<>> THEN <<>> ELSE str_split_on(str_strip(line), "\t")

\* a row with a second column whose code is not an integer is passed over
RowOutcome_SkipsBadCode(row) ==
    IF Len(row) >= 2 /\ IsIntLiteral(row[2]) THEN "add" ELSE "skip"

\* "if len(row) >= 2: label, code = row[0], int(row[1])": a row with fewer than two
\* columns is passed over, and int raises on a code column that is no integer
RowOutcome(row) ==
    IF Len(row) >= 2
    THEN (IF IsIntLiteral(row[2]) THEN "add" ELSE "raise")
    ELSE "skip"

\* the loop over the rows, from the registry built so far
RECURSIVE LoadRows(_, _)
LoadRows(rows, registry) ==
    IF rows = <<>> THEN Returned(registry)
    ELSE IF RowOutcome(Head(rows)) = "raise" THEN ValueError
    ELSE IF RowOutcome(Head(rows)) = "add"
         THEN LoadRows(Tail(rows), DictSet(registry, Head(rows)[1], py_int(Head(rows)[2])))
    ELSE LoadRows(Tail(rows), registry)

\* 5_create_text_prompt.load_class_codes on the lines after the header
load_class_codes(lines) == LoadRows([i \in DOMAIN lines |-> CsvFields(lines[i])], <<>>)

\* 2_count_pixel_classes.read_labels_from_tsv on the lines after the header
read_labels_from_tsv(lines) == LoadRows([i \in DOMAIN lines |-> StrippedParts(lines[i])], <<>>)

-----------------------------------------------------------------------------
(* 4_color_masks.py *)

\* line 136: image_files = [f for f in os.listdir(input_dir) if f.endswith(f'.{ext}')]
RECURSIVE ImageFiles(_, _)
ImageFiles(listing, ext) ==
    IF listing = <<>> THEN <<>>
    ELSE IF str_endswith(Head(listing), <<".">> \o ext)
         THEN <<Head(listing)>> \o ImageFiles(Tail(listing), ext)
         ELSE ImageFiles(Tail(listing), ext)

\* lines 129-132: color_map has the keys 0 .. len(colors) - 1
InColorMap(class_idx, num_colors) == class_idx \in 0..(num_colors - 1)

\* every mask of a class saved under the name of the class
OutputPath_PerClass(output_dir, filename) ==
    output_dir \o <<"/">> \o extract_class_name(filename) \o Chars(".png")

\* line 65: output_path = output_dir / filename
OutputPath(output_dir, filename) == output_dir \o <<"/">> \o filename

\* lines 41-62 of process_image, up to the save: "return" without a class of the
\* table in the name, "raise" when Image.open fails or color_map lacks the class
\* index, "save" otherwise
BeforeSave(filename, content, codes, num_colors) ==
    LET class_name == extract_class_name(filename)
    IN  IF class_name = None \/ ~DictHas(codes, class_name) THEN "return"
        ELSE IF content = "corrupt" THEN "raise"
        ELSE IF ~InColorMap(0, num_colors) \/ ~InColorMap(DictGet(codes, class_name), num_colors)
             THEN "raise"
        ELSE "save"

-----------------------------------------------------------------------------
(* Inputs of a run *)

PixelValues == {0, 255}

\* a 10x10 grid whose first k pixels are background and the rest foreground
Grid10x10(k) == [i \in 1..100 |-> IF i <= k THEN 0 ELSE 255]

\* a 10x10 grid of grey levels that are not black or white: 80 pixels of value 0
\* and 20 pixels of value 3
LabelGrid == [i \in 1..100 |-> IF i <= 80 THEN 0 ELSE 3]

\* pixel arrays a mask file may decode to
Masks ==
    UNION {[1..n -> PixelValues] : n \in 1..MaxPixels}
        \cup {Grid10x10(80), Grid10x10(99), LabelGrid}

\* everything cv2.imread may return
Images == {Image(px) : px \in Masks} \cup {NoImage}

\* the masks of the validation directory: the small masks and one 2x2 grid
SelImages ==
    {Image(px) : px \in UNION {[1..n -> PixelValues] : n \in 1..MaxPixels}}
        \cup {Image(<<0, 255, 255, 0>>), NoImage}

\* the class table (name -> code), in file order
ClassCodeTable ==
    << <<Chars("CD235a_RBC"), 3>>, <<Chars("aSMA_SmoothMuscle"), 2>> >>

\* the description table (GT_code -> label)
FullLabels ==
    (0 :> Chars("Background")) @@ (2 :> Chars("Smooth_muscle, myofibroblast")) @@
    (3 :> Chars("RBC_marker"))

LabelTable(S) == [c \in S |-> FullLabels[c]]

\* file names of the source directory: two tiles of a class of the table and a
\* tile whose class prefix the table lacks
FileNames ==
    {Chars("CD235a_RBC_033_mask.png"), Chars("CD235a_RBC_034_mask.png"),
     Chars("CD99_Ewing_001_mask.png")}

\* directory listings: distinct names in any order
Listings ==
    {l \in UNION {[1..n -> FileNames] : n \in 0..MaxFiles} :
        \A i, j \in DOMAIN l : i # j => l[i] # l[j]}

\* config["settings"]: prompt_template is absent (None), so the default template
\* applies; filter_threshold and empty_mask_threshold are the options of the
\* configuration surface that no script reads
Settings ==
    [prompt_template : {None}, filter_threshold : BOOLEAN,
     empty_mask_threshold : {[num |-> 98, den |-> 100]}]

NoSettings ==
    [prompt_template |-> None, filter_threshold |-> FALSE,
     empty_mask_threshold |-> [num |-> 98, den |-> 100]]

NoLast == [mask_path |-> <<>>, read |-> FALSE, image |-> NoImage, prompt |-> None]
NoAug == [original_prompt |-> <<>>, use_aug |-> FALSE, result |-> None]
NoSel ==
    [files |-> <<>>, content |-> <<>>, detailed_labels |-> <<>>, selected |-> <<>>,
     reference_shape |-> 0, combined_mask |-> <<>>, class_areas |-> <<>>,
     prompt |-> None, sorted_items |-> <<>>]

Range(f) == {f[i] : i \in DOMAIN f}

\* listings of the validation directory: tiles of two classes of the table and a
\* file name without a class prefix
SelFileNames ==
    {Chars("CD235a_RBC_033_mask.png"), Chars("CD235a_RBC_034_mask.png"),
     Chars("aSMA_SmoothMuscle_007_mask.png"), Chars("mask.png")}

SelListings ==
    {l \in UNION {[1..n -> SelFileNames] : n \in 0..MaxFiles} :
        \A i, j \in DOMAIN l : i # j => l[i] # l[j]}

\* the masks of the directory that is counted
CntImages == {Image(<<0>>), Image(<<255>>), Image(<<0, 255, 255>>), NoImage}

NoCnt ==
    [files |-> <<>>, i |-> 0, log |-> <<>>, pixel_counts |-> <<>>, total_pixels |-> 0,
     masks_per_class |-> <<>>, unknown_classes |-> 0, rows |-> <<>>]

NoTbl == [loader |-> "", rows |-> <<>>, result |-> Returned(<<>>)]

\* data lines of a class table file: two well-formed rows, a code with a blank
\* before it, a row of one column, an empty line, a row that ends with its tab, and
\* a row whose code is no number
TableLines ==
    {Chars("CD235a_RBC\t3"), Chars("aSMA_SmoothMuscle\t2"), Chars("CD235a_RBC\t 4"),
     Chars("CD8_Leukocyte"), <<>>, Chars("CD45RB_Leukocyte\t"),
     Chars("ERG_Endothelium\tn/a")}

Tables == UNION {[1..n -> TableLines] : n \in 0..MaxRows}

\* the entries of the input directory of the coloring run: two tiles of a class of
\* the table, a name without a class prefix, and a file of another extension
ColFileNames ==
    {Chars("CD235a_RBC_033_mask.png"), Chars("CD235a_RBC_034_mask.png"),
     Chars("mask.png"), Chars("notes.txt")}

\* os.listdir: distinct names in any order
ColListings ==
    {l \in UNION {[1..n -> ColFileNames] : n \in 0..MaxFiles} :
        \A i, j \in DOMAIN l : i # j => l[i] # l[j]}

\* what a file is to PIL: an image that opens and saves, one that Image.open
\* rejects, and one whose colored copy cannot be saved
ColContents == {"ok", "corrupt", "unwritable"}

ColoredMaskDir == Chars("colored_masks")

NoCol ==
    [files |-> <<>>, content |-> <<>>, num_colors |-> 0, submitted |-> 0, queue |-> <<>>,
     started |-> <<>>, results |-> <<>>, writes |-> <<>>, errors |-> <<>>]

\* prompts handed to augment_prompt: n words joined by a separator
Words(n) == [i \in 1..n |-> Chars("cell")]

\* a description table whose entry for code 3 is a description of WordBudget words
LongLabelTable ==
    (0 :> Chars("Background")) @@ (3 :> str_join(<<" ">>, Words(WordBudget)))

AugPrompts ==
    {str_join(sep, Words(n)) : n \in 0..MaxTokens, sep \in {<<" ">>, <<"\n">>, <<" ", " ">>}}

InitEmit ==
    /\ prog = "emit"
    /\ pc = "loop"
    /\ filter_background \in BOOLEAN
    /\ use_augmentation \in BOOLEAN
    /\ settings \in Settings
    /\ label_to_name \in {LabelTable(S) : S \in SUBSET {0, 3}} \cup {LongLabelTable}
    /\ label_to_name = LongLabelTable =>
          use_augmentation /\ ~filter_background /\ ~settings.filter_threshold
    /\ class_codes = ClassCodeTable
    /\ technical_details = SubSeq(TechnicalDetails, 1, MaxCorpus)
    /\ mask_files \in Listings
    /\ idx = 0
    /\ out = <<>>
    /\ processed_files = 0
    /\ augmented_prompts = 0
    /\ last = NoLast
    /\ outcomes = <<>>
    /\ aug = NoAug
    /\ sel = NoSel
    /\ cnt = NoCnt
    /\ tbl = NoTbl
    /\ col = NoCol
    /\ worker = <<>>

\* main up to line 178 with a prompt_template in config["settings"] that has the
\* field {descriptions}: nothing before the loop looks at the template
MalformedTemplate == Chars("pathology image: {descriptions}")

InitEmitTemplate ==
    /\ prog = "emit_template"
    /\ pc = "loop"
    /\ filter_background = FALSE
    /\ use_augmentation = FALSE
    /\ settings = [NoSettings EXCEPT !.prompt_template = MalformedTemplate]
    /\ label_to_name = LabelTable({0, 3})
    /\ class_codes = ClassCodeTable
    /\ technical_details = SubSeq(TechnicalDetails, 1, MaxCorpus)
    /\ mask_files \in Listings
    /\ idx = 0
    /\ out = <<>>
    /\ processed_files = 0
    /\ augmented_prompts = 0
    /\ last = NoLast
    /\ outcomes = <<>>
    /\ aug = NoAug
    /\ sel = NoSel
    /\ cnt = NoCnt
    /\ tbl = NoTbl
    /\ col = NoCol
    /\ worker = <<>>

InitAugment ==
    /\ prog = "augment"
    /\ pc = "call"
    /\ filter_background = FALSE
    /\ use_augmentation = FALSE
    /\ settings = NoSettings
    /\ label_to_name = LabelTable({})
    /\ class_codes = ClassCodeTable
    /\ technical_details \in {TechnicalDetails, SubSeq(TechnicalDetails, 1, 1)}
    /\ mask_files = <<>>
    /\ idx = 0
    /\ out = <<>>
    /\ processed_files = 0
    /\ augmented_prompts = 0
    /\ last = NoLast
    /\ outcomes = <<>>
    /\ \E p \in AugPrompts, e \in BOOLEAN :
          aug = [original_prompt |-> p, use_aug |-> e, result |-> None]
    /\ sel = NoSel
    /\ cnt = NoCnt
    /\ tbl = NoTbl
    /\ col = NoCol
    /\ worker = <<>>

InitSelect ==
    /\ prog = "select"
    /\ pc = "call"
    /\ filter_background = FALSE
    /\ use_augmentation = FALSE
    /\ settings = NoSettings
    /\ label_to_name = LabelTable({})
    /\ class_codes = ClassCodeTable
    /\ technical_details = <<>>
    /\ mask_files = <<>>
    /\ idx = 0
    /\ out = <<>>
    /\ processed_files = 0
    /\ augmented_prompts = 0
    /\ last = NoLast
    /\ outcomes = <<>>
    /\ aug = NoAug
    /\ cnt = NoCnt
    /\ tbl = NoTbl
    /\ col = NoCol
    /\ worker = <<>>
    /\ \E l \in SelListings :
       \E c \in [Range(l) -> SelImages] :
       \E d \in {LabelTable({0, 2, 3}), LabelTable({3}), LabelTable({})} :
          sel = [NoSel EXCEPT !.files = l, !.content = c, !.detailed_labels = d]

\* 2_count_pixel_classes.main, lines 52-95: the state on entry to the loop
InitCount ==
    /\ prog = "count"
    /\ pc = "loop"
    /\ filter_background = FALSE
    /\ use_augmentation = FALSE
    /\ settings = NoSettings
    /\ label_to_name = LabelTable({})
    /\ class_codes = ClassCodeTable
    /\ technical_details = <<>>
    /\ mask_files = <<>>
    /\ idx = 0
    /\ out = <<>>
    /\ processed_files = 0
    /\ augmented_prompts = 0
    /\ last = NoLast
    /\ outcomes = <<>>
    /\ aug = NoAug
    /\ sel = NoSel
    /\ tbl = NoTbl
    /\ col = NoCol
    /\ worker = <<>>
    /\ \E l \in SelListings :
          cnt = [NoCnt EXCEPT !.files = l,
                              !.pixel_counts = InitialCounts(ClassCodeTable),
                              !.masks_per_class = InitialMasksPerClass(ClassCodeTable)]

\* a call of one of the two loaders on a class table file
InitLoad ==
    /\ prog = "load"
    /\ pc = "call"
    /\ filter_background = FALSE
    /\ use_augmentation = FALSE
    /\ settings = NoSettings
    /\ label_to_name = LabelTable({})
    /\ class_codes = <<>>
    /\ technical_details = <<>>
    /\ mask_files = <<>>
    /\ idx = 0
    /\ out = <<>>
    /\ processed_files = 0
    /\ augmented_prompts = 0
    /\ last = NoLast
    /\ outcomes = <<>>
    /\ aug = NoAug
    /\ sel = NoSel
    /\ cnt = NoCnt
    /\ col = NoCol
    /\ worker = <<>>
    /\ \E loader \in {"load_class_codes", "read_labels_from_tsv"} :
       \E rows \in Tables :
          tbl = [NoTbl EXCEPT !.loader = loader, !.rows = rows]

\* color_masks, lines 104-146: the state when the pool has been created; every
\* worker is idle and no task has been submitted
InitColor ==
    /\ prog = "color"
    /\ pc = "map"
    /\ filter_background = FALSE
    /\ use_augmentation = FALSE
    /\ settings = NoSettings
    /\ label_to_name = LabelTable({})
    /\ class_codes = ClassCodeTable
    /\ technical_details = <<>>
    /\ mask_files = <<>>
    /\ idx = 0
    /\ out = <<>>
    /\ processed_files = 0
    /\ augmented_prompts = 0
    /\ last = NoLast
    /\ outcomes = <<>>
    /\ aug = NoAug
    /\ sel = NoSel
    /\ cnt = NoCnt
    /\ tbl = NoTbl
    /\ \E listing \in ColListings :
       \E image_files \in {ImageFiles(listing, Chars("png"))} :
       \E content \in [DOMAIN image_files -> ColContents] :
       \E max_workers \in 1..MaxWorkers :
       \E num_colors \in {3, 4} :
          /\ col = [NoCol EXCEPT
                      !.files = image_files,
                      !.content = content,
                      !.num_colors = num_colors,
                      !.started = [k \in DOMAIN image_files |-> 0],
                      !.results = [k \in DOMAIN image_files |-> "pending"]]
          /\ worker = [w \in 1..max_workers |-> [pc |-> "idle", task |-> 0]]

Init ==
    \/ InitEmit \/ InitEmitTemplate \/ InitAugment \/ InitSelect \/ InitCount \/ InitLoad
    \/ InitColor

-----------------------------------------------------------------------------
(* Steps *)

\* the runs of 5_create_text_prompt.main: with the default template, and with a
\* template of the configuration that names another field
EmitRuns == {"emit", "emit_template"}

\* every prompt with a word more than before is counted, also an unchanged one
CountsAsAugmented_OrEqual(augmented, original_length) ==
    Len(str_split(augmented)) >= original_length

\* main, line 196: if len(prompt.split()) > original_length
CountsAsAugmented(augmented, original_length) ==
    Len(str_split(augmented)) > original_length

\* history: the way one file leaves the loop body
Outcome(reads, image, prompt) ==
    IF ~reads THEN "no_class"
    ELSE IF ~image.ok THEN "unreadable"
    ELSE IF prompt = None THEN "background_only"
    ELSE IF KeepsPrompt(prompt) THEN "written"
    ELSE "dropped"

\* main, lines 180-206: one iteration of the loop over mask_files; image is the
\* content of the file, which process_mask reads only for a known class prefix
ProcessNextMask ==
    /\ prog \in EmitRuns
    /\ pc = "loop"
    /\ idx < Len(mask_files)
    /\ \E mask_path \in {mask_files[idx + 1]} :
       \E reads \in {ReadsMask(mask_path, class_codes)} :
       \E image \in Images :
       \E prompt \in {process_mask(mask_path, image, label_to_name, class_codes,
                                   settings, filter_background)} :
          /\ last' = [mask_path |-> mask_path, read |-> reads,
                      image |-> image, prompt |-> prompt]
          /\ IF prompt = KeyError
             THEN /\ pc' = "crashed"
                  /\ UNCHANGED <<idx, outcomes, out, processed_files, augmented_prompts>>
             ELSE /\ pc' = pc
                  /\ idx' = idx + 1
                  /\ outcomes' = Append(outcomes, Outcome(reads, image, prompt))
                  /\ IF KeepsPrompt(prompt)
                     THEN \E original_length \in {Len(str_split(prompt))} :
                          \E choice \in (IF DrawsContext(prompt, use_augmentation)
                                         THEN DOMAIN technical_details ELSE {0}) :
                          \E augmented \in {augment_prompt(prompt, use_augmentation, choice)} :
                             /\ augmented_prompts' =
                                   IF CountsAsAugmented(augmented, original_length)
                                   THEN augmented_prompts + 1
                                   ELSE augmented_prompts
                             /\ out' = WriteLine(out, Result(mask_path, augmented))
                             /\ processed_files' = processed_files + 1
                     ELSE UNCHANGED <<out, processed_files, augmented_prompts>>
    /\ UNCHANGED <<prog, filter_background, use_augmentation, settings, label_to_name,
                   class_codes, technical_details, mask_files, aug, sel, cnt, tbl, col, worker>>

\* main, line 171: total_files = len(mask_files)
total_files == Len(mask_files)

\* the wrong counter subtracted
FilteredOut_LessAugmented == total_files - augmented_prompts

\* main, line 211: the figure printed as "Filtered out"
FilteredOut == total_files - processed_files

\* main, lines 208-215: the loop is exhausted, the summary is printed
PrintSummary ==
    /\ prog \in EmitRuns
    /\ pc = "loop"
    /\ idx = Len(mask_files)
    /\ pc' = "done"
    /\ UNCHANGED <<prog, filter_background, use_augmentation, settings, label_to_name,
                   class_codes, technical_details, mask_files, idx, out, processed_files,
                   augmented_prompts, last, outcomes, aug, sel, cnt, tbl, col, worker>>

\* one call augment_prompt(original_prompt, use_augmentation)
CallAugmentPrompt ==
    /\ prog = "augment"
    /\ pc = "call"
    /\ \E choice \in (IF DrawsContext(aug.original_prompt, aug.use_aug)
                      THEN DOMAIN technical_details ELSE {0}) :
          aug' = [aug EXCEPT !.result = augment_prompt(aug.original_prompt, aug.use_aug, choice)]
    /\ pc' = "done"
    /\ UNCHANGED <<prog, filter_background, use_augmentation, settings, label_to_name,
                   class_codes, technical_details, mask_files, idx, out, processed_files,
                   augmented_prompts, last, outcomes, sel, cnt, tbl, col, worker>>

\* the choices random.choice can make: one file of every class group
Selections(class_groups) ==
    {[i \in DOMAIN class_groups |-> <<class_groups[i][1], class_groups[i][2][picks[i]]>>] :
        picks \in {p \in [DOMAIN class_groups -> 1..MaxFiles] :
                      \A i \in DOMAIN class_groups : p[i] <= Len(class_groups[i][2])}}

\* select_samples, lines 111-246
SelectSamples ==
    /\ prog = "select"
    /\ pc = "call"
    /\ \E selected \in Selections(ClassGroups(sel.files, class_codes)) :
       \E reference_shape \in {ReferenceShape(selected, sel.content)} :
          IF reference_shape = 0
          THEN sel' = [sel EXCEPT !.selected = selected]
          ELSE \E class_areas \in {ClassAreas(selected, sel.content, class_codes,
                                             reference_shape)} :
               \E class_percentages \in {SelectedPercentages(class_areas, reference_shape,
                                                             sel.detailed_labels)} :
                  sel' = [sel EXCEPT
                            !.selected = selected,
                            !.reference_shape = reference_shape,
                            !.combined_mask =
                                CombinedMask(selected, sel.content, class_codes,
                                             reference_shape, Len(selected)),
                            !.class_areas = class_areas,
                            !.prompt = create_prompt(class_percentages,
                                                     PromptTemplate(settings)),
                            !.sorted_items = SortedItems(class_areas, reference_shape)]
    /\ pc' = "done"
    /\ UNCHANGED <<prog, filter_background, use_augmentation, settings, label_to_name,
                   class_codes, technical_details, mask_files, idx, out, processed_files,
                   augmented_prompts, last, outcomes, aug, cnt, tbl, col, worker>>

\* 2_count_pixel_classes.main, lines 98-131: one iteration of the loop over
\* mask_files; image is the content of the file
CountNextMask ==
    /\ prog = "count"
    /\ pc = "loop"
    /\ cnt.i < Len(cnt.files)
    /\ \E mask_path \in {cnt.files[cnt.i + 1]} :
       \E image \in CntImages :
       \E class_name \in {extract_class_name(mask_path)} :
          IF class_name = None \/ ~DictHas(class_codes, class_name)
          THEN cnt' = [cnt EXCEPT !.i = @ + 1,
                                  !.log = Append(@, <<mask_path, image>>),
                                  !.unknown_classes = @ + 1]
          ELSE \E counted \in {DictSet(cnt.masks_per_class, class_name,
                                       DictGet(cnt.masks_per_class, class_name) + 1)} :
               IF ~image.ok
               THEN cnt' = [cnt EXCEPT !.i = @ + 1,
                                       !.log = Append(@, <<mask_path, image>>),
                                       !.masks_per_class = counted]
               ELSE \E class_idx \in {DictGet(class_codes, class_name)} :
                    \E foreground_count \in {CountPositive(image.pixels)} :
                    \E background_count \in {Len(image.pixels) - foreground_count} :
                    \E with_background \in {DictSet(cnt.pixel_counts, 0,
                                               DictGet(cnt.pixel_counts, 0) + background_count)} :
                       cnt' = [cnt EXCEPT
                                 !.i = @ + 1,
                                 !.log = Append(@, <<mask_path, image>>),
                                 !.masks_per_class = counted,
                                 !.total_pixels = @ + Len(image.pixels),
                                 !.pixel_counts =
                                     DictSet(with_background, class_idx,
                                             DictGet(with_background, class_idx)
                                                + foreground_count)]
    /\ UNCHANGED <<prog, pc, filter_background, use_augmentation, settings, label_to_name,
                   class_codes, technical_details, mask_files, idx, out, processed_files,
                   augmented_prompts, last, outcomes, aug, sel, tbl, col, worker>>

\* 2_count_pixel_classes.main, lines 134-162: the percentages and the statistics
\* rows; the division of line 134 raises ZeroDivisionError when no mask was counted
WriteStatistics ==
    /\ prog = "count"
    /\ pc = "loop"
    /\ cnt.i = Len(cnt.files)
    /\ IF cnt.total_pixels = 0
       THEN pc' = "crashed" /\ UNCHANGED cnt
       ELSE /\ pc' = "done"
            /\ cnt' = [cnt EXCEPT !.rows = StatisticsRows(cnt.pixel_counts, cnt.total_pixels,
                                                          class_codes, cnt.masks_per_class)]
    /\ UNCHANGED <<prog, filter_background, use_augmentation, settings, label_to_name,
                   class_codes, technical_details, mask_files, idx, out, processed_files,
                   augmented_prompts, last, outcomes, aug, sel, tbl, col, worker>>

\* one call of a loader: the registry, or the ValueError of int
LoadTable ==
    /\ prog = "load"
    /\ pc = "call"
    /\ \E result \in {IF tbl.loader = "load_class_codes"
                      THEN load_class_codes(tbl.rows)
                      ELSE read_labels_from_tsv(tbl.rows)} :
          /\ tbl' = [tbl EXCEPT !.result = result]
          /\ pc' = IF result = ValueError THEN "crashed" ELSE "done"
    /\ UNCHANGED <<prog, filter_background, use_augmentation, settings, label_to_name,
                   class_codes, technical_details, mask_files, idx, out, processed_files,
                   augmented_prompts, last, outcomes, aug, sel, cnt, col, worker>>

\* executor.map, line 149: the main thread submits process_image for the next file
\* of image_files to the queue of the pool
SubmitTask ==
    /\ prog = "color"
    /\ pc = "map"
    /\ col.submitted < Len(col.files)
    /\ col' = [col EXCEPT !.submitted = @ + 1, !.queue = Append(@, col.submitted + 1)]
    /\ UNCHANGED <<prog, pc, filter_background, use_augmentation, settings, label_to_name,
                   class_codes, technical_details, mask_files, idx, out, processed_files,
                   augmented_prompts, last, outcomes, aug, sel, cnt, tbl, worker>>

\* an idle worker thread takes the task at the head of the queue and enters
\* process_image
TakeTask(w) ==
    /\ prog = "color"
    /\ w \in DOMAIN worker
    /\ worker[w].pc = "idle"
    /\ col.queue # <<>>
    /\ \E k \in {Head(col.queue)} :
          /\ col' = [col EXCEPT !.queue = Tail(@), !.started[k] = @ + 1]
          /\ worker' = [worker EXCEPT ![w] = [pc |-> "process", task |-> k]]
    /\ UNCHANGED <<prog, pc, filter_background, use_augmentation, settings, label_to_name,
                   class_codes, technical_details, mask_files, idx, out, processed_files,
                   augmented_prompts, last, outcomes, aug, sel, cnt, tbl>>

\* process_image, lines 41-62, in worker w: the class of the name, Image.open and
\* the coloring; an exception is caught at line 68 and printed
ColorImage(w) ==
    /\ prog = "color"
    /\ w \in DOMAIN worker
    /\ worker[w].pc = "process"
    /\ \E k \in {worker[w].task} :
       \E way \in {BeforeSave(col.files[k], col.content[k], class_codes, col.num_colors)} :
          IF way = "save"
          THEN /\ worker' = [worker EXCEPT ![w].pc = "save"]
               /\ UNCHANGED col
          ELSE /\ worker' = [worker EXCEPT ![w] = [pc |-> "idle", task |-> 0]]
               /\ col' = [col EXCEPT
                            !.results[k] = IF way = "raise" THEN "error" ELSE "no_class",
                            !.errors = IF way = "raise" THEN Append(@, col.files[k]) ELSE @]
    /\ UNCHANGED <<prog, pc, filter_background, use_augmentation, settings, label_to_name,
                   class_codes, technical_details, mask_files, idx, out, processed_files,
                   augmented_prompts, last, outcomes, aug, sel, cnt, tbl>>

\* process_image, lines 65-69, in worker w: the colored image is saved under
\* output_path; an exception of save is caught and printed
SaveImage(w) ==
    /\ prog = "color"
    /\ w \in DOMAIN worker
    /\ worker[w].pc = "save"
    /\ \E k \in {worker[w].task} :
       \E saved \in {col.content[k] # "unwritable"} :
          /\ worker' = [worker EXCEPT ![w] = [pc |-> "idle", task |-> 0]]
          /\ col' = [col EXCEPT
                       !.writes = Append(@, [path |-> OutputPath(ColoredMaskDir, col.files[k]),
                                             worker |-> w, task |-> k, saved |-> saved]),
                       !.results[k] = IF saved THEN "saved" ELSE "error",
                       !.errors = IF saved THEN @ ELSE Append(@, col.files[k])]
    /\ UNCHANGED <<prog, pc, filter_background, use_augmentation, settings, label_to_name,
                   class_codes, technical_details, mask_files, idx, out, processed_files,
                   augmented_prompts, last, outcomes, aug, sel, cnt, tbl>>

\* lines 147-159: list(...) has drawn the result of every task, the pool is shut
\* down and the completion line is printed
CompleteMap ==
    /\ prog = "color"
    /\ pc = "map"
    /\ col.submitted = Len(col.files)
    /\ \A k \in DOMAIN col.results : col.results[k] # "pending"
    /\ pc' = "done"
    /\ UNCHANGED <<prog, filter_background, use_augmentation, settings, label_to_name,
                   class_codes, technical_details, mask_files, idx, out, processed_files,
                   augmented_prompts, last, outcomes, aug, sel, cnt, tbl, col, worker>>

Next ==
    \/ ProcessNextMask
    \/ PrintSummary
    \/ CallAugmentPrompt
    \/ SelectSamples
    \/ CountNextMask
    \/ WriteStatistics
    \/ LoadTable
    \/ SubmitTask
    \/ \E w \in 1..MaxWorkers : TakeTask(w)
    \/ \E w \in 1..MaxWorkers : ColorImage(w)
    \/ \E w \in 1..MaxWorkers : SaveImage(w)
    \/ CompleteMap

Spec == Init /\ [][Next]_vars

\* the for loop of main moves on to its next file: a step of ProcessNextMask, as
\* seen on idx (ProcessNextMask is enabled whenever idx < Len(mask_files))
NextIteration ==
    /\ prog = "emit"
    /\ pc = "loop"
    /\ idx < Len(mask_files)
    /\ idx' = idx + 1

\* worker thread w of the pool moves on: a step of TakeTask(w), ColorImage(w) or
\* SaveImage(w), as seen on worker (one of the three is enabled exactly when this is)
WorkerStep(w) ==
    /\ prog = "color"
    /\ w \in DOMAIN worker
    /\ \/ /\ worker[w].pc = "idle"
          /\ col.queue # <<>>
          /\ worker' = [worker EXCEPT ![w] = [pc |-> "process", task |-> Head(col.queue)]]
       \/ /\ worker[w].pc = "process"
          /\ \/ worker' = [worker EXCEPT ![w].pc = "save"]
             \/ worker' = [worker EXCEPT ![w] = [pc |-> "idle", task |-> 0]]
       \/ /\ worker[w].pc = "save"
          /\ worker' = [worker EXCEPT ![w] = [pc |-> "idle", task |-> 0]]

\* main is sequential code: an iteration that can start is executed, and the summary
\* is printed once the loop is exhausted; in the coloring run the main thread and
\* every worker thread of the pool are scheduled again and again
FairSpec ==
    /\ Spec
    /\ WF_idx(NextIteration)
    /\ WF_vars(PrintSummary)
    /\ WF_vars(SubmitTask)
    /\ \A w \in 1..MaxWorkers : WF_worker(WorkerStep(w))
    /\ WF_vars(CompleteMap)

-----------------------------------------------------------------------------
(* Vocabulary of the properties *)

RecordsOf(name) == {i \in DOMAIN out : out[i].source = SourceDirName \o <<"/">> \o name}
HasRecord(name) == RecordsOf(name) # {}

AllBackground(px) == \A i \in DOMAIN px : px[i] = 0
HasForeground(px) == \E i \in DOMAIN px : px[i] > 0

\* the emitter has consumed a file
Consumed == prog = "emit" /\ idx > 0
\* ... and process_mask decoded its mask
Loaded == Consumed /\ last.read /\ last.image.ok
\* ... and rendered a prompt for it
Rendered == Loaded /\ last.prompt # None
\* select_samples has run and written a prompt file
Selected == prog = "select" /\ pc = "done" /\ sel.prompt # None
\* augment_prompt has returned
Augmented == prog = "augment" /\ pc = "done"

\* reading a rendered text back: the tokens "<digits>.<dd>%" and their values in
\* hundredths of a percent, left to right
RECURSIVE ParseInt(_)
ParseInt(ds) ==
    IF ds = <<>> THEN 0
    ELSE ParseInt(SubSeq(ds, 1, Len(ds) - 1)) * 10 +
         ((CHOOSE k \in DOMAIN DigitChars : DigitChars[k] = ds[Len(ds)]) - 1)

StripComma(t) == IF t[Len(t)] = "," THEN SubSeq(t, 1, Len(t) - 1) ELSE t
IsPctToken(t) == StripComma(t)[Len(StripComma(t))] = "%"
PctValue(t) ==
    LET body == SubSeq(StripComma(t), 1, Len(StripComma(t)) - 1)
        parts == str_split_on(body, ".")
    IN  ParseInt(parts[1]) * 100 + ParseInt(parts[2])

PromptPcts(text) ==
    LET pct == SelectSeq(str_split(text), IsPctToken)
    IN  [i \in DOMAIN pct |-> PctValue(pct[i])]

NonDecreasing(q) == \A i, j \in DOMAIN q : i <= j => q[i] <= q[j]

\* the text has an entry "<word> <percentage>%"
HasEntry(text, word) ==
    LET t == str_split(text)
    IN  \E i \in DOMAIN t : t[i] = word /\ i < Len(t) /\ IsPctToken(t[i + 1])

TokenCount(text) ==
    Cardinality({i \in DOMAIN text : ~IsSpace(text[i]) /\ (i = 1 \/ IsSpace(text[i - 1]))})

\* the fraction of background pixels exceeds the threshold
BackgroundAbove(px, threshold) ==
    CountZero(px) * threshold.den > threshold.num * Len(px)

\* the file name starts with a class name of the class table and an underscore
KnownPrefix(name) ==
    \E i \in DOMAIN class_codes :
        LET prefix == class_codes[i][1] \o <<"_">>
        IN  Len(name) >= Len(prefix) /\ SubSeq(name, 1, Len(prefix)) = prefix

-----------------------------------------------------------------------------
(* Filtering *)

\* C1: background-only filtering law. With filter_background on, a decoded mask that
\* holds only code 0 is rejected by process_mask and no record is written for it;
\* with filter_background off, process_mask rejects no decoded mask, and an
\* all-background mask yields a prompt and a record.
C1_BackgroundOnlyFiltering ==
    Loaded =>
        /\ (filter_background /\ AllBackground(last.image.pixels))
              => (last.prompt = None /\ ~HasRecord(last.mask_path))
        /\ ~filter_background => last.prompt # None
        /\ (~filter_background /\ AllBackground(last.image.pixels))
              => HasRecord(last.mask_path)

C1_Witness ==
    /\ Loaded
    /\ filter_background
    /\ AllBackground(last.image.pixels)
    /\ outcomes[idx] = "background_only"

\* C2: threshold filtering rule. With filter_threshold on, a mask whose background
\* percentage exceeds empty_mask_threshold (98%) produces no record, even if it has
\* some foreground pixels.
C2_ThresholdRule ==
    (Loaded /\ settings.filter_threshold
            /\ BackgroundAbove(last.image.pixels, settings.empty_mask_threshold))
        => ~HasRecord(last.mask_path)

\* C3 as claimed: with both rules off, every readable mask file of the directory has
\* exactly one record, whatever its file name or class prefix.
C3_EveryReadableRetained ==
    (Consumed /\ ~filter_background /\ ~settings.filter_threshold /\ last.image.ok)
        => Cardinality(RecordsOf(last.mask_path)) = 1

\* C3 as amended: with both rules off, a file has exactly one record when its name
\* starts with a class of the class table and it decodes, and none otherwise: a
\* readable file with an unlisted class prefix is dropped without being read.
C3_KnownClassRetained ==
    (Consumed /\ ~filter_background /\ ~settings.filter_threshold)
        => Cardinality(RecordsOf(last.mask_path)) =
              (IF KnownPrefix(last.mask_path) /\ last.image.ok THEN 1 ELSE 0)

C3_Witness ==
    /\ Consumed
    /\ ~filter_background
    /\ ~settings.filter_threshold
    /\ last.image.ok
    /\ ~KnownPrefix(last.mask_path)
    /\ ~last.read
    /\ ~HasRecord(last.mask_path)

-----------------------------------------------------------------------------
(* Rendering *)

Abs(x) == IF x < 0 THEN -x ELSE x

\* p hundredths of a percent is count/total*100 rounded to two decimals
RoundsTo(p, count, total) == 2 * Abs(p * total - count * 10000) <= total

\* the percentage (in hundredths) of the entry "<word> <percentage>%" of the text
EntryPct(text, word) ==
    LET t == str_split(text)
    IN  PctValue(t[(CHOOSE i \in DOMAIN t : t[i] = word /\ i < Len(t) /\ IsPctToken(t[i + 1])) + 1])

\* the template rendered with an empty description
EmptyRendering == Chars("pathology image: ")

\* C4: ordering law. The percentages of a rendered prompt, read left to right, never
\* decrease, in the emitter's prompts and in the prompt of select_samples.
C4_AscendingPercentages ==
    /\ Rendered => NonDecreasing(PromptPcts(last.prompt))
    /\ Selected => NonDecreasing(PromptPcts(sel.prompt))

C4_Witness ==
    /\ Rendered
    /\ CountZero(last.image.pixels) > CountPositive(last.image.pixels)
    /\ PromptPcts(last.prompt) = <<2000, 8000>>

\* C5: minimum-percentage retention. No class whose percentage is at or below
\* min_class_percentage (1.0) appears in a rendered prompt, of the emitter or of
\* select_samples.
C5_MinimumPercentage ==
    /\ Rendered => \A i \in DOMAIN PromptPcts(last.prompt) : PromptPcts(last.prompt)[i] > 100
    /\ Selected => \A i \in DOMAIN PromptPcts(sel.prompt) : PromptPcts(sel.prompt)[i] > 100

\* C6: empty-description fallback. No prompt is the template rendered with an empty
\* description, and a prompt without any entry is the template rendered with
\* "background", in the emitter and in select_samples.
C6_BackgroundFallback ==
    /\ Rendered =>
          /\ last.prompt # EmptyRendering
          /\ PromptPcts(last.prompt) = <<>> => last.prompt = Chars("pathology image: background")
    /\ Selected =>
          /\ sel.prompt # EmptyRendering
          /\ PromptPcts(sel.prompt) = <<>> => sel.prompt = Chars("pathology image: background")

\* C7: background is part of the rendered description if and only if label 0 has an
\* entry in the description table, and then with the percentage of the code-0 pixels;
\* with a table that holds only code 3 ("RBC_marker"), the 10x10 mask with 80
\* background and 20 foreground pixels renders as "pathology image: rbc marker 20.00%".
C7_BackgroundIffInRegistry ==
    Rendered =>
        /\ HasEntry(last.prompt, Chars("background")) <=> 0 \in DOMAIN label_to_name
        /\ 0 \in DOMAIN label_to_name =>
              RoundsTo(EntryPct(last.prompt, Chars("background")),
                       CountZero(last.image.pixels), Len(last.image.pixels))
        /\ (DOMAIN label_to_name = {3} /\ last.image = Image(Grid10x10(80))) =>
              last.prompt = Chars("pathology image: rbc marker 20.00%")

C7_Witness ==
    /\ Rendered
    /\ DOMAIN label_to_name = {3}
    /\ last.image = Image(Grid10x10(80))
    /\ last.prompt = Chars("pathology image: rbc marker 20.00%")

-----------------------------------------------------------------------------
(* Augmentation *)

\* the prompt of the record written for the file consumed last
LastRecord == out[Len(out)]

Written == Rendered /\ outcomes[idx] = "written"

\* text is base, a newline, the label "Context: " and one sentence of the corpus
IsContextOf(text, base) ==
    \E k \in DOMAIN technical_details :
        text = base \o Chars("\nContext: ") \o technical_details[k]

\* C8: augmentation guard. augment_prompt returns its input unchanged whenever
\* augmentation is disabled and, whatever the flag, whenever the prompt has 55 or more
\* whitespace-separated tokens; the prompt of a record written with augmentation
\* disabled is the rendered prompt.
C8_AugmentationGuard ==
    /\ Augmented =>
          ((~aug.use_aug \/ TokenCount(aug.original_prompt) >= 55)
              => aug.result = aug.original_prompt)
    /\ (Written /\ ~use_augmentation) => LastRecord.prompt = last.prompt

C8_Witness ==
    /\ Augmented
    /\ aug.use_aug
    /\ TokenCount(aug.original_prompt) = 55
    /\ aug.result = aug.original_prompt

\* C9: with augmentation enabled and fewer than 55 tokens, augment_prompt returns the
\* original prompt followed by a newline, the literal "Context: " and one sentence of
\* the corpus, so the original prompt is a prefix of the result; with the
\* single-element corpus the result is the prompt followed by that sentence.
C9_ContextAppended ==
    /\ (Augmented /\ aug.use_aug /\ TokenCount(aug.original_prompt) < 55) =>
          /\ IsContextOf(aug.result, aug.original_prompt)
          /\ SubSeq(aug.result, 1, Len(aug.original_prompt)) = aug.original_prompt
          /\ Len(technical_details) = 1 =>
                aug.result = aug.original_prompt \o Chars("\nContext: SegPath is a large-scale dataset for semantic segmentation of cancer histology images[cite: 1, 18].")
    /\ (Written /\ use_augmentation /\ TokenCount(last.prompt) < 55) =>
          IsContextOf(LastRecord.prompt, last.prompt)

C9_Witness ==
    /\ Augmented
    /\ aug.use_aug
    /\ TokenCount(aug.original_prompt) = 54
    /\ Len(technical_details) = 1
    /\ aug.result = aug.original_prompt \o Chars("\nContext: ") \o technical_details[1]

-----------------------------------------------------------------------------
(* The batch *)

\* the number of files consumed so far that left the loop body as a record
WrittenSoFar == Cardinality({i \in DOMAIN outcomes : outcomes[i] = "written"})

\* C10: partial-failure isolation and completion. Every emitter run over a finite
\* list of readable and unreadable files reaches the printed summary with every file
\* visited; a file that cannot be decoded leaves no record; and every file, whatever
\* came before it in the list, leaves exactly the record its own content calls for
\* (one if it is readable and passes the filter, none otherwise).
C10_IsolationAndCompletion ==
    /\ (prog = "emit") ~> (pc = "done" /\ idx = Len(mask_files))
    /\ [](Consumed =>
            /\ ~last.image.ok => ~HasRecord(last.mask_path)
            /\ Len(out) = WrittenSoFar
            /\ (last.read /\ last.image.ok
                  /\ (HasForeground(last.image.pixels) \/ ~filter_background))
                  => /\ HasRecord(last.mask_path)
                     /\ LastRecord.source = SourceDirName \o <<"/">> \o last.mask_path)

C10_Witness ==
    /\ prog = "emit"
    /\ pc = "done"
    /\ Len(mask_files) = 2
    /\ outcomes = <<"unreadable", "written">>
    /\ ~HasRecord(mask_files[1])
    /\ HasRecord(mask_files[2])

-----------------------------------------------------------------------------
(* The summary *)

Finished == prog = "emit" /\ pc = "done"

\* the number of files that left the loop body in the given way
Tally(kind) == Cardinality({i \in DOMAIN outcomes : outcomes[i] = kind})

-----------------------------------------------------------------------------
(* The output stream *)

\* the position in the listing of the file a record is about
FileIndex(record) ==
    CHOOSE i \in DOMAIN mask_files : record.source = SourceDirName \o <<"/">> \o mask_files[i]

\* the record is whole: both paths name the same file of the listing and the prompt
\* is a rendering of the template
WholeRecord(record) ==
    /\ \E i \in DOMAIN mask_files :
          /\ record.source = SourceDirName \o <<"/">> \o mask_files[i]
          /\ record.target = TargetDirName \o <<"/">> \o mask_files[i]
    /\ Len(record.prompt) > Len(EmptyRendering)
    /\ SubSeq(record.prompt, 1, Len(EmptyRendering)) = EmptyRendering

\* C12: output stream integrity. In every state of the emitter loop the output holds
\* as many records as processed_files counts; every file consumed so far has one
\* record if it was accepted and none otherwise, and a file not yet consumed has none;
\* every record is whole, and the record of the file consumed last carries the
\* prompt as rendered and augmented; records are in the order of processing.
C12_OutputIntegrity ==
    prog = "emit" =>
        /\ Len(out) = processed_files
        /\ \A i \in DOMAIN mask_files :
              Cardinality(RecordsOf(mask_files[i])) =
                 (IF i <= idx /\ outcomes[i] = "written" THEN 1 ELSE 0)
        /\ \A j \in DOMAIN out : WholeRecord(out[j])
        /\ \A j, k \in DOMAIN out : j < k => FileIndex(out[j]) < FileIndex(out[k])
        /\ Written =>
              /\ FileIndex(LastRecord) = idx
              /\ IF use_augmentation /\ TokenCount(last.prompt) < 55
                 THEN IsContextOf(LastRecord.prompt, last.prompt)
                 ELSE LastRecord.prompt = last.prompt

C12_Witness ==
    /\ prog = "emit"
    /\ idx = 2
    /\ outcomes = <<"written", "written">>
    /\ Len(out) = 2
    /\ out[1].source = SourceDirName \o <<"/">> \o mask_files[1]
    /\ out[2].source = SourceDirName \o <<"/">> \o mask_files[2]

-----------------------------------------------------------------------------
(* Enumeration *)

\* the characters of file names in code-point order
CodePointOrder == Chars("./0123456789ABCDEFGHIJKLMNOPQRSTUVWXYZ_abcdefghijklmnopqrstuvwxyz")
CodePointRank(c) == CHOOSE i \in DOMAIN CodePointOrder : CodePointOrder[i] = c

\* a sorts before b lexicographically
StrLess(a, b) ==
    \E k \in 1..(Len(a) + 1) :
        /\ k <= Len(b)
        /\ \A i \in 1..(k - 1) : a[i] = b[i]
        /\ k <= Len(a) => CodePointRank(a[k]) < CodePointRank(b[k])

\* C13: deterministic enumeration. The records of a finished run are in the
\* lexicographic order of the file names, whatever order the directory was listed in,
\* so that the same set of files always gives the same sequence of records.
C13_LexicographicRecords ==
    Finished =>
        \A j, k \in DOMAIN out : j < k => StrLess(out[j].source, out[k].source)

-----------------------------------------------------------------------------
(* The area summary of a mask *)

\* the class code process_mask derives from the name of the file consumed last
LastClassIdx == DictGet(class_codes, extract_class_name(last.mask_path))

\* the count the summary of process_mask attributes to the label code c
Attributed(px, class_idx, c) ==
    LET labels == UniqueLabels(class_idx)
        counts == MaskCounts(px)
    IN  IF \E i \in DOMAIN labels : labels[i] = c
        THEN counts[CHOOSE i \in DOMAIN labels : labels[i] = c]
        ELSE 0

\* the number of pixels whose value is exactly v
RawCount(px, v) == Cardinality({i \in DOMAIN px : px[i] = v})

PixelRange(px) == {px[i] : i \in DOMAIN px}

\* C14: count conservation. The two counts process_mask computes for a decoded mask
\* (background and foreground) sum exactly to the number of pixels of the mask: every
\* pixel is counted under exactly one label.
C14_CountConservation ==
    Loaded =>
        /\ MaskCounts(last.image.pixels)[1] + MaskCounts(last.image.pixels)[2]
              = Len(last.image.pixels)
        /\ \A i \in DOMAIN last.image.pixels :
              IsZero(last.image.pixels[i]) # IsPositive(last.image.pixels[i])

C14_Witness ==
    /\ Loaded
    /\ last.image.pixels = LabelGrid
    /\ MaskCounts(last.image.pixels) = <<80, 20>>

\* C15 as claimed: the count attributed to a label code is the number of pixels whose
\* value is exactly that code, for every code and whatever the file is called.
C15_RawLabelTally ==
    Loaded =>
        \A c \in PixelRange(last.image.pixels) \cup {0, LastClassIdx} :
            Attributed(last.image.pixels, LastClassIdx, c) = RawCount(last.image.pixels, c)

\* C15 as amended: the mask is read as a binary mask. The count of label 0 is the
\* number of pixels of value 0; every other pixel, whatever its value, is counted under
\* the class code that the class table gives for the prefix of the file name; no
\* other code gets a count.
C15_BinaryTally ==
    Loaded =>
        /\ Attributed(last.image.pixels, LastClassIdx, 0) = RawCount(last.image.pixels, 0)
        /\ Attributed(last.image.pixels, LastClassIdx, LastClassIdx)
              = Len(last.image.pixels) - RawCount(last.image.pixels, 0)
        /\ \A c \in PixelRange(last.image.pixels) \ {0, LastClassIdx} :
              Attributed(last.image.pixels, LastClassIdx, c) = 0

C15_Witness ==
    /\ Loaded
    /\ last.image.pixels = Grid10x10(80)
    /\ Attributed(last.image.pixels, LastClassIdx, 3) = 20
    /\ RawCount(last.image.pixels, 3) = 0
    /\ Attributed(last.image.pixels, LastClassIdx, 255) = 0

-----------------------------------------------------------------------------
(* Labels without a name *)

\* the counting script has written its statistics
Counted == prog = "count" /\ pc = "done"

\* the label has an entry in the registry used for display
Named(label) == label \in DOMAIN label_to_name
ClassOfTable(label_id) == \E i \in DOMAIN class_codes : class_codes[i][2] = label_id

-----------------------------------------------------------------------------
(* Loading the class table *)

\* a loader has returned or raised
CalledLoader == prog = "load" /\ pc # "call"

Blank(line) == \A i \in DOMAIN line : IsSpace(line[i])
HasTab(line) == \E i \in DOMAIN line : line[i] = "\t"

\* a data row with fewer than two columns, or with a code column that is no integer
Malformed(line) ==
    /\ ~Blank(line)
    /\ \/ ~HasTab(line)
       \/ ~IsIntLiteral(str_split_on(line, "\t")[2])

\* the rows as the called loader reads them
RowsRead ==
    [k \in DOMAIN tbl.rows |->
        IF tbl.loader = "load_class_codes" THEN CsvFields(tbl.rows[k])
        ELSE StrippedParts(tbl.rows[k])]

-----------------------------------------------------------------------------
(* Fatal errors *)

\* a run of the emitter has ended with the KeyError of a malformed template
FatalTemplate == prog \in EmitRuns /\ pc = "crashed"

\* C18: a run that ends with a fatal configuration error (here the malformed
\* template) has aborted before the loop over the mask files began: no mask file
\* has been processed and no record has been written.
C18_FatalBeforeBatch ==
    FatalTemplate => idx = 0 /\ last = NoLast /\ out = <<>>

-----------------------------------------------------------------------------
(* Ties *)

\* in a listing of (label code, count) pairs, neighbours of equal count (hence of
\* equal percentage) stand in ascending order of the label code
TiesAscend(items) ==
    \A k \in 1..(Len(items) - 1) :
        items[k][2] = items[k + 1][2] => items[k][1] < items[k + 1][1]

\* C19: labels of equal percentage stand in ascending order of their label code in
\* every sorted listing: the rows of the pixel statistics, the area statistics of
\* select_samples, and the rendered prompt of a mask.
C19_TiesByLabelCode ==
    /\ Counted => TiesAscend([k \in DOMAIN cnt.rows |->
                                 <<cnt.rows[k].label_id, cnt.rows[k].count>>])
    /\ Selected => TiesAscend(sel.sorted_items)
    /\ (Rendered /\ Named(0) /\ Named(LastClassIdx) /\ Len(PromptPcts(last.prompt)) = 2
            /\ PromptPcts(last.prompt)[1] = PromptPcts(last.prompt)[2])
          => str_split(last.prompt)[3] = clean_class_name(label_to_name[0])

-----------------------------------------------------------------------------
(* The augmented counter *)

\* the text ends with a newline, the label "Context: " and a sentence of the corpus
EndsWithContext(text) ==
    \E k \in DOMAIN technical_details :
        str_endswith(text, ContextLabel \o technical_details[k])

\* C20: augmented_prompts is the number of written records whose prompt differs from
\* the rendered prompt, which are the records written with augmentation enabled for
\* a rendered prompt of fewer than 55 tokens; it never exceeds processed_files and
\* is 0 when augmentation is disabled.
C20_AugmentedCounter ==
    prog = "emit" =>
        /\ augmented_prompts =
              Cardinality({k \in DOMAIN out : EndsWithContext(out[k].prompt)})
        /\ Written =>
              /\ LastRecord.prompt # last.prompt <=> EndsWithContext(LastRecord.prompt)
              /\ LastRecord.prompt # last.prompt <=>
                     (use_augmentation /\ TokenCount(last.prompt) < 55)
        /\ augmented_prompts <= processed_files
        /\ ~use_augmentation => augmented_prompts = 0

C20_Witness ==
    /\ Finished
    /\ use_augmentation
    /\ 0 < augmented_prompts
    /\ processed_files < total_files
    /\ LastRecord.prompt # last.prompt

-----------------------------------------------------------------------------
(* The accumulated pixel counts *)

\* the sum of the values of a table
RECURSIVE SumValues(_)
SumValues(d) == IF d = <<>> THEN 0 ELSE d[1][2] + SumValues(Tail(d))

\* the files consumed so far whose pixels were accumulated: a class of the table
\* in the name and a readable image
Accumulated(k) ==
    /\ extract_class_name(cnt.log[k][1]) # None
    /\ DictHas(class_codes, extract_class_name(cnt.log[k][1]))
    /\ cnt.log[k][2].ok

RECURSIVE PixelsOfLog(_)
PixelsOfLog(k) ==
    IF k = 0 THEN 0
    ELSE PixelsOfLog(k - 1) + (IF Accumulated(k) THEN Len(cnt.log[k][2].pixels) ELSE 0)

\* the counts and the total come from the accumulated files alone and agree
CountsFromAccumulated ==
    /\ SumValues(cnt.pixel_counts) = cnt.total_pixels
    /\ cnt.total_pixels = PixelsOfLog(Len(cnt.log))

\* C21: in the pixel-counting script the per-label counts sum to total_pixels after
\* any sequence of files, and a file that is skipped or cannot be read changes
\* neither the counts, nor total_pixels, nor masks_per_class: masks_per_class of a
\* class is the number of its masks whose pixels were accumulated.
C21_CountsAndMaskCounts ==
    prog = "count" =>
        /\ CountsFromAccumulated
        /\ \A c \in DOMAIN cnt.masks_per_class :
              cnt.masks_per_class[c][2] =
                  Cardinality({k \in DOMAIN cnt.log :
                                  /\ Accumulated(k)
                                  /\ extract_class_name(cnt.log[k][1]) = cnt.masks_per_class[c][1]})

-----------------------------------------------------------------------------
(* The areas of the combined mask *)

\* C22: in select_samples the reported area of every class code is the number of
\* pixels of the combined mask that carry the code, also when the foregrounds of
\* the selected masks overlap; the background area is not negative, and the
\* reported areas sum to the number of pixels of the combined mask.
C22_AreasOfCombinedMask ==
    Selected =>
        /\ \A i \in DOMAIN sel.class_areas :
              sel.class_areas[i][2] = RawCount(sel.combined_mask, sel.class_areas[i][1])
        /\ DictGet(sel.class_areas, 0) >= 0
        /\ SumValues(sel.class_areas) = Len(sel.combined_mask)

-----------------------------------------------------------------------------
(* The coloring pool *)

\* the coloring run has printed its completion line
Colored == prog = "color" /\ pc = "done"

\* what the name and the content of file k alone call for
OwnResult(k) ==
    IF ~DictHas(class_codes, extract_class_name(col.files[k])) THEN "no_class"
    ELSE IF col.content[k] = "ok"
            /\ DictGet(class_codes, extract_class_name(col.files[k])) < col.num_colors
         THEN "saved"
    ELSE "error"

\* C23: in the parallel coloring run, under every interleaving of the worker threads,
\* the run completes with every listed file processed exactly once; a file whose
\* processing raises ends as that file's error and every other file ends as its own
\* name and content call for; and no two writes go to the same output path.
C23_ParallelColoring ==
    /\ (prog = "color") ~> Colored
    /\ [](prog = "color" =>
            /\ \A k \in DOMAIN col.started : col.started[k] <= 1
            /\ \A i, j \in DOMAIN col.writes :
                  i # j => col.writes[i].path # col.writes[j].path
            /\ \A k \in DOMAIN col.results :
                  col.results[k] # "pending" => col.results[k] = OwnResult(k)
            /\ Colored =>
                  \A k \in DOMAIN col.files :
                      /\ col.started[k] = 1
                      /\ col.results[k] # "pending"
                      /\ col.results[k] = "saved" <=>
                            \E i \in DOMAIN col.writes :
                                col.writes[i].task = k /\ col.writes[i].saved)

C23_Witness ==
    /\ Colored
    /\ Len(worker) = 2
    /\ Len(col.files) = 2
    /\ col.content[1] = "corrupt"
    /\ col.results = <<"error", "saved">>
    /\ col.writes[1].worker = 2

=============================================================================
